---- MODULE Spec2Model ----
(***************************************************************************)
(* Dependence-graph list scheduler of OpenQL (src/src/scheduler.cc).       *)
(*                                                                         *)
(* Nodes are numbered as lemon numbers them in Scheduler::init: SOURCE is  *)
(* node 0, the i-th gate of the circuit handed to init is node i, SINK is  *)
(* node Len(gates)+1.  A size_t value is represented by its residue of     *)
(* least absolute value modulo 2^64: a negative number n stands for the    *)
(* size_t value 2^64 + n, so + and - are the integer ones and only the     *)
(* comparisons differ (ULess).                                             *)
(***************************************************************************)
EXTENDS Integers, Sequences, FiniteSets, TLC

\* ------------------------------------------------------------------ bounds
MaxGates == 3
NumQubits == 2
NumCregs == 1
MaxDuration == 3
MaxRefusals == 1
\* platform.cycle_time of the modelled platform
CycleTime == 2

\* ------------------------------------------------------- program constants
\* gate.h: the cycle value of a gate that was never scheduled
MAX_CYCLE == 2147483647
\* scheduler.h: the cycle SINK starts at when scheduling backward
ALAP_SINK_CYCLE == 1073741823
\* duration of the SOURCE gate: its out-arcs get weight 1
SourceDuration == 1

VARIABLES
    qubit_count,      \* kernel.qubit_count / platform.qubit_number
    creg_count,       \* kernel.creg_count
    commute,          \* options::get("scheduler_commute") == "yes"
    gates,            \* the gates of the circuit handed to init, node i |-> gate
    circ,             \* *circp: the circuit as a sequence of node ids
    cycle,            \* node |-> instruction[node]->cycle
    arcs,             \* the arcs of graph, in the order add_dep created them
    pc,               \* position in schedule_kernel / rcschedule_kernel
    dir,              \* scheduling direction of schedule()
    avlist,           \* schedule(): list of available nodes
    scheduled,        \* schedule(): node |-> scheduled[instruction[node]]
    curr_cycle,       \* schedule() / schedule_alap_uniform: current cycle
    remaining,        \* node |-> remaining[node]
    rmKind,           \* which resource manager the run was given
    reserved,         \* resource manager: the reservations made so far
    refusals,         \* number of times available() answered false so far
    commits,          \* node |-> number of times schedule() committed it
    gates_per_cycle,  \* schedule_alap_uniform: cycle |-> list of gates
    cycle_count,      \* schedule_alap_uniform: SINK.cycle - 1
    non_empty_bundle_count,
    gate_count,
    pred_cycle,       \* schedule_alap_uniform: bundle scanned for candidates
    moves,            \* number of gates schedule_alap_uniform moved so far
    rmlog,            \* the calls the last iteration of schedule() made to rm
    cycles_valid      \* kernel.cycles_valid

vars == << qubit_count, creg_count, commute, gates, circ, cycle, arcs, pc, dir,
           avlist, scheduled, curr_cycle, remaining, rmKind, reserved, refusals,
           commits, gates_per_cycle, cycle_count, non_empty_bundle_count,
           gate_count, pred_cycle, moves, rmlog, cycles_valid >>

\* ------------------------------------------------------------ size_t values
ULess(a, b) == IF (a < 0) = (b < 0) THEN a < b ELSE b < 0

UMax(a, b) == IF ULess(a, b) THEN b ELSE a

UMin(a, b) == IF ULess(b, a) THEN b ELSE a

\* ------------------------------------------------------------------- nodes
SOURCE == 0

SINK == Len(gates) + 1

Nodes == 0 .. (Len(gates) + 1)

GateNodes == 1 .. Len(gates)

qubit_creg_count == qubit_count + creg_count

Operands == 0 .. (qubit_creg_count - 1)

\* the gate types immediately_schedulable and schedule() do not hand to the
\* resource manager
BypassTypes == {"dummy", "classical", "wait", "remap"}

\* IsBypass that knows the sentinels only, not the bypass kinds
M_IsBypass_SentinelsOnly(n) == n = SOURCE \/ n = SINK

IsBypass(n) == n = SOURCE \/ n = SINK \/ gates[n].type \in BypassTypes

Duration(n) == IF n = SOURCE THEN SourceDuration ELSE gates[n].duration

\* CeilDiv rounding down, as the integer division duration / cycle_time does
M_CeilDiv_Floor(d, ct) == d \div ct

\* int(std::ceil(static_cast<float>(duration) / cycle_time))
CeilDiv(d, ct) == (d + ct - 1) \div ct

\* Weight that is never less than one cycle
M_Weight_AtLeastOne(srcID) ==
    IF Duration(srcID) = 0 THEN 1 ELSE CeilDiv(Duration(srcID), CycleTime)

Weight(srcID) == CeilDiv(Duration(srcID), CycleTime)

\* ------------------------------------------------------------ gate library
Durations == {0, 1, MaxDuration}

Gate(nm, ty, ops, cops, d) ==
    [name |-> nm, type |-> ty, operands |-> ops, creg_operands |-> cops, duration |-> d]

QubitPairs(qc) ==
    {p \in (0 .. (qc - 1)) \X (0 .. (qc - 1)) : p[1] # p[2]}

GateLib(qc, cc) ==
    {Gate("x", "custom", <<q>>, <<>>, d) : q \in 0 .. (qc - 1), d \in Durations}
    \cup {Gate("cnot", "custom", p, <<>>, MaxDuration) : p \in QubitPairs(qc)}
    \cup {Gate("cz", "custom", p, <<>>, 1) : p \in QubitPairs(qc)}
    \cup {Gate("measure", "custom", <<q>>, <<c>>, MaxDuration) :
              q \in 0 .. (qc - 1), c \in 0 .. (cc - 1)}
    \cup {Gate("ldi", "classical", <<>>, <<c>>, 1) : c \in 0 .. (cc - 1)}
    \cup {Gate("display", "display", <<>>, <<>>, 1)}
    \cup {Gate("nop", "classical", <<>>, <<>>, MaxDuration)}
    \cup {Gate("swap", "custom", <<q, q>>, <<>>, 1) : q \in 0 .. (qc - 1)}

Circuits(qc, cc) ==
    UNION {[1 .. n -> GateLib(qc, cc)] : n \in 0 .. MaxGates}

\* two cnots that share their control and have distinct targets, over one
\* qubit more than the circuits above use
CnotPairs ==
    {<< Gate("cnot", "custom", <<t[1], t[2]>>, <<>>, d),
        Gate("cnot", "custom", <<t[1], t[3]>>, <<>>, d) >> :
        t \in {u \in (0 .. NumQubits) \X (0 .. NumQubits) \X (0 .. NumQubits) :
                  u[1] # u[2] /\ u[1] # u[3] /\ u[2] # u[3]},
        d \in Durations}

\* scenario S6: a chain of five unit-duration gates on qubit 0 and one such
\* gate on each of four more qubits, so that ASAP places five gates in cycle 1
\* and one gate in each of cycles 2 .. 5
S6Kernel ==
    [i \in 1 .. 9 |-> Gate("x", "custom", <<IF i <= 5 THEN 0 ELSE i - 5>>, <<>>, 1)]

\* --------------------------------------------------------- Scheduler::init
Arc(srcID, tgtID, deptype, operand) ==
    [src |-> srcID, tgt |-> tgtID, weight |-> Weight(srcID),
     cause |-> operand, depType |-> deptype]

\* DepsFrom that never emits a RAR arc, whatever scheduler_commute says
M_DepsFrom_NoRar(list, tgtID, deptype, operand) ==
    IF deptype = "RAR" THEN << >>
    ELSE [i \in 1 .. Len(list) |-> Arc(list[i], tgtID, deptype, operand)]

\* one add_dep call per element of a LastReaders / LastDs list, in list order
DepsFrom(list, tgtID, deptype, operand) ==
    [i \in 1 .. Len(list) |-> Arc(list[i], tgtID, deptype, operand)]

\* EmitAccess whose cnot target access emits its DAD arcs whatever
\* scheduler_commute says
M_EmitAccess_DadAlways(st, tgtID, o, mode) ==
    CASE mode = "W" ->
           << Arc(st.LastWriter[o], tgtID, "WAW", o) >>
           \o DepsFrom(st.LastReaders[o], tgtID, "WAR", o)
           \o DepsFrom(st.LastDs[o], tgtID, "WAD", o)
      [] mode = "Wc" ->
           << Arc(st.LastWriter[o], tgtID, "WAW", o) >>
           \o DepsFrom(st.LastReaders[o], tgtID, "WAR", o)
      [] mode = "R" ->
           << Arc(st.LastWriter[o], tgtID, "RAW", o) >>
           \o (IF commute THEN << >> ELSE DepsFrom(st.LastReaders[o], tgtID, "RAR", o))
           \o DepsFrom(st.LastDs[o], tgtID, "RAD", o)
      [] mode = "D" ->
           << Arc(st.LastWriter[o], tgtID, "DAW", o) >>
           \o DepsFrom(st.LastDs[o], tgtID, "DAD", o)
           \o DepsFrom(st.LastReaders[o], tgtID, "DAR", o)
      [] mode = "Rz" ->
           (IF commute THEN << >> ELSE DepsFrom(st.LastReaders[o], tgtID, "RAR", o))
           \o << Arc(st.LastWriter[o], tgtID, "RAW", o) >>
           \o DepsFrom(st.LastDs[o], tgtID, "RAD", o)

\* the add_dep calls of one operand access; st holds LastWriter, LastReaders
\* and LastDs.  W: write (measure qubit, display, classical, generic, SINK);
\* Wc: measure's write of a classical operand; R: cnot control; D: cnot
\* target; Rz: cz / cphase operand
EmitAccess(st, tgtID, o, mode) ==
    CASE mode = "W" ->
           << Arc(st.LastWriter[o], tgtID, "WAW", o) >>
           \o DepsFrom(st.LastReaders[o], tgtID, "WAR", o)
           \o DepsFrom(st.LastDs[o], tgtID, "WAD", o)
      [] mode = "Wc" ->
           << Arc(st.LastWriter[o], tgtID, "WAW", o) >>
           \o DepsFrom(st.LastReaders[o], tgtID, "WAR", o)
      [] mode = "R" ->
           << Arc(st.LastWriter[o], tgtID, "RAW", o) >>
           \o (IF commute THEN << >> ELSE DepsFrom(st.LastReaders[o], tgtID, "RAR", o))
           \o DepsFrom(st.LastDs[o], tgtID, "RAD", o)
      [] mode = "D" ->
           << Arc(st.LastWriter[o], tgtID, "DAW", o) >>
           \o (IF commute THEN << >> ELSE DepsFrom(st.LastDs[o], tgtID, "DAD", o))
           \o DepsFrom(st.LastReaders[o], tgtID, "DAR", o)
      [] mode = "Rz" ->
           (IF commute THEN << >> ELSE DepsFrom(st.LastReaders[o], tgtID, "RAR", o))
           \o << Arc(st.LastWriter[o], tgtID, "RAW", o) >>
           \o DepsFrom(st.LastDs[o], tgtID, "RAD", o)

\* UpdateAccess that does not record the readers of a cz / cphase
M_UpdateAccess_CzNotRecorded(st, consID, o, mode) ==
    CASE mode = "W" ->
           [st EXCEPT !.LastWriter[o] = consID, !.LastReaders[o] = << >>,
                      !.LastDs[o] = << >>]
      [] mode = "Wc" ->
           [st EXCEPT !.LastWriter[o] = consID, !.LastReaders[o] = << >>]
      [] mode = "R" ->
           [st EXCEPT !.LastReaders[o] = Append(@, consID), !.LastDs[o] = << >>]
      [] mode = "Rz" ->
           [st EXCEPT !.LastDs[o] = << >>]
      [] mode = "D" ->
           [st EXCEPT !.LastDs[o] = Append(@, consID), !.LastReaders[o] = << >>]

\* the LastWriter / LastReaders / LastDs update of one operand access
UpdateAccess(st, consID, o, mode) ==
    CASE mode = "W" ->
           [st EXCEPT !.LastWriter[o] = consID, !.LastReaders[o] = << >>,
                      !.LastDs[o] = << >>]
      [] mode = "Wc" ->
           [st EXCEPT !.LastWriter[o] = consID, !.LastReaders[o] = << >>]
      [] mode \in {"R", "Rz"} ->
           [st EXCEPT !.LastReaders[o] = Append(@, consID), !.LastDs[o] = << >>]
      [] mode = "D" ->
           [st EXCEPT !.LastDs[o] = Append(@, consID), !.LastReaders[o] = << >>]

RECURSIVE EmitAll(_, _, _, _)
\* all add_dep calls of a sequence of accesses, none of them updating st
EmitAll(st, consID, acc, k) ==
    IF k > Len(acc) THEN << >>
    ELSE EmitAccess(st, consID, acc[k].o, acc[k].mode) \o EmitAll(st, consID, acc, k + 1)

RECURSIVE UpdateAll(_, _, _, _)
UpdateAll(st, consID, acc, k) ==
    IF k > Len(acc) THEN st
    ELSE UpdateAll(UpdateAccess(st, consID, acc[k].o, acc[k].mode), consID, acc, k + 1)

RECURSIVE EmitUpdateEach(_, _, _, _)
\* the generic branch: each operand's add_dep calls are followed at once by
\* its update
EmitUpdateEach(st, consID, acc, k) ==
    IF k > Len(acc) THEN st
    ELSE LET new == EmitAccess(st, consID, acc[k].o, acc[k].mode)
             upd == UpdateAccess(st, consID, acc[k].o, acc[k].mode)
         IN  EmitUpdateEach([upd EXCEPT !.arcs = st.arcs \o new], consID, acc, k + 1)

Access(operand, m) == [o |-> operand, mode |-> m]

AllOperandsW == [i \in 1 .. qubit_creg_count |-> Access(i - 1, "W")]

\* the branch of init's if-chain a gate takes
GateBranch(g) ==
    IF g.name = "measure" THEN "measure"
    ELSE IF g.name = "display" THEN "display"
    ELSE IF g.type = "classical" THEN "classical"
    ELSE IF g.name = "cnot" THEN "cnot"
    ELSE IF g.name \in {"cz", "cphase"} THEN "cz"
    ELSE "generic"

\* the operand accesses of a gate, in the order init visits them
GateAccesses(g) ==
    LET qs == g.operands
        cs == g.creg_operands
        b == GateBranch(g)
    IN  CASE b = "measure" ->
               [i \in 1 .. Len(qs) |-> Access(qs[i], "W")]
               \o [i \in 1 .. Len(cs) |-> Access(qubit_count + cs[i], "Wc")]
          [] b = "display" -> AllOperandsW
          [] b = "classical" ->
               [i \in 1 .. Len(cs) |-> Access(qubit_count + cs[i], "W")]
          [] b = "cnot" ->
               [i \in 1 .. Len(qs) |-> Access(qs[i], IF i = 1 THEN "R" ELSE "D")]
          [] b = "cz" -> [i \in 1 .. Len(qs) |-> Access(qs[i], "Rz")]
          [] b = "generic" ->
               [i \in 1 .. Len(qs) |-> Access(qs[i], "W")]
               \o [i \in 1 .. Len(cs) |-> Access(qubit_count + cs[i], "W")]

\* one iteration of init's loop over the circuit: node consID and its arcs
AddGate(st, consID) ==
    LET g == gates[consID]
        acc == GateAccesses(g)
    IN  IF GateBranch(g) = "generic"
        THEN EmitUpdateEach(st, consID, acc, 1)
        ELSE UpdateAll([st EXCEPT !.arcs = @ \o EmitAll(st, consID, acc, 1)],
                       consID, acc, 1)

RECURSIVE AddGates(_, _)
AddGates(st, consID) ==
    IF consID > Len(gates) THEN st ELSE AddGates(AddGate(st, consID), consID + 1)

\* the SINK node: a W access of every operand
AddSink(st) ==
    [st EXCEPT !.arcs = @ \o EmitAll(st, SINK, AllOperandsW, 1)]

\* the graph init builds for the circuit in gates
BuildGraph ==
    LET st0 == [arcs |-> << >>,
                LastWriter |-> [o \in Operands |-> SOURCE],
                LastReaders |-> [o \in Operands |-> << >>],
                LastDs |-> [o \in Operands |-> << >>]]
    IN  AddSink(AddGates(st0, 1)).arcs

\* ------------------------------------------------------------ graph access
\* lemon's ListDigraph puts a new arc at the head of its source's out-list and
\* of its target's in-list, so OutArcIt and InArcIt visit the newest arc first
RECURSIVE ArcIdsWhere(_, _, _)
ArcIdsWhere(n, isOut, k) ==
    IF k = 0 THEN << >>
    ELSE IF (IF isOut THEN arcs[k].src ELSE arcs[k].tgt) = n
         THEN << k >> \o ArcIdsWhere(n, isOut, k - 1)
         ELSE ArcIdsWhere(n, isOut, k - 1)

OutArcIt(n) == ArcIdsWhere(n, TRUE, Len(arcs))

InArcIt(n) == ArcIdsWhere(n, FALSE, Len(arcs))

ArcIds == 1 .. Len(arcs)

\* dag(graph) that finds every graph a DAG
M_IsDag_True(as) == TRUE

\* dag(graph) for the arcs as: no arc is part of a cycle
IsDag(as) ==
    LET step(S) == S \cup {as[a].tgt : a \in {b \in 1 .. Len(as) : as[b].src \in S}}
        closure[k \in 0 .. (Len(gates) + 2)] ==
            [n \in Nodes |-> IF k = 0 THEN {n} ELSE step(closure[k - 1][n])]
    IN  \A a \in 1 .. Len(as) : as[a].src \notin closure[Len(gates) + 2][as[a].tgt]

\* --------------------------------------------------------------- set_cycle
RECURSIVE M_FoldIn_LastArc(_, _, _, _)
\* FoldIn with max forgotten: the in-arc visited last decides
M_FoldIn_LastArc(cyc, its, k, currCycle) ==
    IF k > Len(its) THEN currCycle
    ELSE M_FoldIn_LastArc(cyc, its, k + 1, cyc[arcs[its[k]].src] + arcs[its[k]].weight)

RECURSIVE FoldIn(_, _, _, _)
\* currCycle = max(currCycle, source.cycle + weight) over the in-arcs
FoldIn(cyc, its, k, currCycle) ==
    IF k > Len(its) THEN currCycle
    ELSE FoldIn(cyc, its, k + 1,
                UMax(currCycle, cyc[arcs[its[k]].src] + arcs[its[k]].weight))

RECURSIVE M_FoldOut_NoWeight(_, _, _, _)
\* FoldOut with the arc weight forgotten
M_FoldOut_NoWeight(cyc, its, k, currCycle) ==
    IF k > Len(its) THEN currCycle
    ELSE M_FoldOut_NoWeight(cyc, its, k + 1, UMin(currCycle, cyc[arcs[its[k]].tgt]))

RECURSIVE FoldOut(_, _, _, _)
\* currCycle = min(currCycle, target.cycle - weight) over the out-arcs
FoldOut(cyc, its, k, currCycle) ==
    IF k > Len(its) THEN currCycle
    ELSE FoldOut(cyc, its, k + 1,
                 UMin(currCycle, cyc[arcs[its[k]].tgt] - arcs[its[k]].weight))

\* the cycle set_cycle_gate gives node n, the other cycles being cyc
set_cycle_gate(cyc, n, d) ==
    IF d = "forward"
    THEN [cyc EXCEPT ![n] = FoldIn(cyc, InArcIt(n), 1, 0)]
    ELSE [cyc EXCEPT ![n] = FoldOut(cyc, OutArcIt(n), 1, MAX_CYCLE)]

RECURSIVE SetCycleForwardFrom(_, _, _)
SetCycleForwardFrom(cyc, c, k) ==
    IF k > Len(c) THEN cyc
    ELSE SetCycleForwardFrom(set_cycle_gate(cyc, c[k], "forward"), c, k + 1)

RECURSIVE SetCycleBackwardFrom(_, _, _)
SetCycleBackwardFrom(cyc, c, k) ==
    IF k = 0 THEN cyc
    ELSE SetCycleBackwardFrom(set_cycle_gate(cyc, c[k], "backward"), c, k - 1)

\* ShiftBySource without the last line, the readjustment of SOURCE itself
M_ShiftBySource_NotSource(cyc, c) ==
    LET SOURCECycle == cyc[SOURCE]
    IN  [n \in Nodes |->
            IF n = SINK \/ (\E i \in 1 .. Len(c) : c[i] = n)
            THEN cyc[n] - SOURCECycle ELSE cyc[n]]

\* readjust the cycle values so that SOURCE is at 0
ShiftBySource(cyc, c) ==
    LET SOURCECycle == cyc[SOURCE]
    IN  [n \in Nodes |->
            IF n = SOURCE \/ n = SINK \/ (\E i \in 1 .. Len(c) : c[i] = n)
            THEN cyc[n] - SOURCECycle ELSE cyc[n]]

\* the cycles after set_cycle(d), the circuit being c
set_cycle(cyc, c, d) ==
    IF d = "forward"
    THEN set_cycle_gate(
             SetCycleForwardFrom([cyc EXCEPT ![SOURCE] = 0], c, 1), SINK, "forward")
    ELSE ShiftBySource(
             set_cycle_gate(
                 SetCycleBackwardFrom([cyc EXCEPT ![SINK] = ALAP_SINK_CYCLE], c, Len(c)),
                 SOURCE, "backward"),
             c)

\* ----------------------------------------------------------- sort_by_cycle
cycle_lessthan(cyc, n1, n2) == ULess(cyc[n1], cyc[n2])

\* an insertion that puts x before the elements it ties with
M_InsertStable_BeforeTies(cyc, sorted, x) ==
    SelectSeq(sorted, LAMBDA y : cycle_lessthan(cyc, y, x)) \o << x >>
       \o SelectSeq(sorted, LAMBDA y : ~cycle_lessthan(cyc, y, x))

RECURSIVE InsertStable(_, _, _)
\* x goes after every element that is not greater than it
InsertStable(cyc, sorted, x) ==
    IF sorted = << >> THEN << x >>
    ELSE IF cycle_lessthan(cyc, x, sorted[Len(sorted)])
         THEN Append(InsertStable(cyc, SubSeq(sorted, 1, Len(sorted) - 1), x),
                     sorted[Len(sorted)])
         ELSE Append(sorted, x)

RECURSIVE SortFrom(_, _, _, _)
SortFrom(cyc, c, k, acc) ==
    IF k > Len(c) THEN acc ELSE SortFrom(cyc, c, k + 1, InsertStable(cyc, acc, c[k]))

\* std::stable_sort(cp->begin(), cp->end(), cycle_lessthan)
sort_by_cycle(cyc, c) == SortFrom(cyc, c, 1, << >>)

\* ------------------------------------------------------------ set_remaining
RECURSIVE FoldRemaining(_, _, _, _, _)
\* currRemain = max(currRemain, remaining[neighbour] + weight) over the arcs its
FoldRemaining(rem, its, k, d, currRemain) ==
    IF k > Len(its) THEN currRemain
    ELSE LET a == arcs[its[k]]
             other == IF d = "forward" THEN a.tgt ELSE a.src
             cand == rem[other] + a.weight
         IN  FoldRemaining(rem, its, k + 1, d,
                           IF currRemain < cand THEN cand ELSE currRemain)

set_remaining_gate(rem, n, d) ==
    [rem EXCEPT ![n] = FoldRemaining(rem, IF d = "forward" THEN OutArcIt(n) ELSE InArcIt(n),
                                     1, d, 0)]

RECURSIVE SetRemainingForwardFrom(_, _, _)
\* forward: the gates of the circuit from the last to the first
SetRemainingForwardFrom(rem, c, k) ==
    IF k = 0 THEN rem
    ELSE SetRemainingForwardFrom(set_remaining_gate(rem, c[k], "forward"), c, k - 1)

RECURSIVE SetRemainingBackwardFrom(_, _, _)
SetRemainingBackwardFrom(rem, c, k) ==
    IF k > Len(c) THEN rem
    ELSE SetRemainingBackwardFrom(set_remaining_gate(rem, c[k], "backward"), c, k + 1)

\* remaining after set_remaining(d); remaining.clear() leaves every node at
\* the value a std::map hands out for a missing key, 0
set_remaining(c, d) ==
    LET cleared == [n \in Nodes |-> 0]
    IN  IF d = "forward"
        THEN set_remaining_gate(SetRemainingForwardFrom(cleared, c, Len(c)), SOURCE, "forward")
        ELSE set_remaining_gate(SetRemainingBackwardFrom(cleared, c, 1), SINK, "backward")

\* ----------------------------------------------------- criticality_lessthan
InSeq(x, list) == \E i \in 1 .. Len(list) : list[i] = x

RECURSIVE UniqueNodes(_, _, _, _)
\* the far ends of the arcs its, each node once, in the order first met
UniqueNodes(its, k, d, ln) ==
    IF k > Len(its) THEN ln
    ELSE LET dep == IF d = "forward" THEN arcs[its[k]].tgt ELSE arcs[its[k]].src
         IN  UniqueNodes(its, k + 1, d, IF InSeq(dep, ln) THEN ln ELSE Append(ln, dep))

\* get_depending_nodes that follows the arcs against the direction
M_get_depending_nodes_Against(n, d) ==
    UniqueNodes(IF d = "forward" THEN InArcIt(n) ELSE OutArcIt(n), 1,
                IF d = "forward" THEN "backward" ELSE "forward", << >>)

get_depending_nodes(n, d) ==
    UniqueNodes(IF d = "forward" THEN OutArcIt(n) ELSE InArcIt(n), 1, d, << >>)

RECURSIVE InsertByRemaining(_, _, _)
InsertByRemaining(rem, sorted, x) ==
    IF sorted = << >> THEN << x >>
    ELSE IF rem[x] < rem[sorted[Len(sorted)]]
         THEN Append(InsertByRemaining(rem, SubSeq(sorted, 1, Len(sorted) - 1), x),
                     sorted[Len(sorted)])
         ELSE Append(sorted, x)

RECURSIVE SortByRemainingFrom(_, _, _, _)
\* ln.sort(remaining[d1] < remaining[d2]); std::list::sort is stable
SortByRemainingFrom(rem, ln, k, acc) ==
    IF k > Len(ln) THEN acc
    ELSE SortByRemainingFrom(rem, ln, k + 1, InsertByRemaining(rem, acc, ln[k]))

RECURSIVE criticality_lessthan(_, _, _, _)
RECURSIVE InsertByCriticality(_, _, _, _)
RECURSIVE SortByCriticalityFrom(_, _, _, _, _)

InsertByCriticality(rem, d, sorted, x) ==
    IF sorted = << >> THEN << x >>
    ELSE IF criticality_lessthan(rem, x, sorted[Len(sorted)], d)
         THEN Append(InsertByCriticality(rem, d, SubSeq(sorted, 1, Len(sorted) - 1), x),
                     sorted[Len(sorted)])
         ELSE Append(sorted, x)

\* ln.sort(criticality_lessthan(d1, d2, dir))
SortByCriticalityFrom(rem, d, ln, k, acc) ==
    IF k > Len(ln) THEN acc
    ELSE SortByCriticalityFrom(rem, d, ln, k + 1, InsertByCriticality(rem, d, acc, ln[k]))

\* criticality_lessthan that takes equal remaining for less
M_criticality_lessthan_OrEqual(rem, n1, n2, d) == n1 # n2 /\ rem[n1] <= rem[n2]

\* whether n1 is less deep-critical than n2
criticality_lessthan(rem, n1, n2, d) ==
    IF n1 = n2 THEN FALSE
    ELSE IF rem[n1] < rem[n2] THEN TRUE
    ELSE IF rem[n1] > rem[n2] THEN FALSE
    ELSE
      LET ln1 == get_depending_nodes(n1, d)
          ln2 == get_depending_nodes(n2, d)
      IN  IF ln2 = << >> THEN FALSE
          ELSE IF ln1 = << >> THEN TRUE
          ELSE
            LET s1 == SortByRemainingFrom(rem, ln1, 1, << >>)
                s2 == SortByRemainingFrom(rem, ln2, 1, << >>)
                crit_dep_n1 == rem[s1[Len(s1)]]
                crit_dep_n2 == rem[s2[Len(s2)]]
            IN  IF crit_dep_n1 < crit_dep_n2 THEN TRUE
                ELSE IF crit_dep_n1 > crit_dep_n2 THEN FALSE
                ELSE
                  LET r1 == SelectSeq(s1, LAMBDA n : ~(rem[n] < crit_dep_n1))
                      r2 == SelectSeq(s2, LAMBDA n : ~(rem[n] < crit_dep_n2))
                  IN  IF Len(r1) < Len(r2) THEN TRUE
                      ELSE IF Len(r1) > Len(r2) THEN FALSE
                      ELSE
                        LET c1 == SortByCriticalityFrom(rem, d, r1, 1, << >>)
                            c2 == SortByCriticalityFrom(rem, d, r2, 1, << >>)
                        IN  criticality_lessthan(rem, c1[Len(c1)], c2[Len(c2)], d)

\* InsertAvailable that always appends
M_InsertAvailable_Append(rem, av, n, d) == Append(av, n)

\* ----------------------------------------------------------- list scheduler
\* avlist.insert(position of the first element less critical than n, n), or
\* push_back when there is none
InsertAvailable(rem, av, n, d) ==
    LET lower == {i \in 1 .. Len(av) : criticality_lessthan(rem, av[i], n, d)}
    IN  IF lower = {} THEN Append(av, n)
        ELSE LET first == CHOOSE i \in lower : \A j \in lower : i <= j
             IN  SubSeq(av, 1, first - 1) \o << n >> \o SubSeq(av, first, Len(av))

\* MakeAvailable that does not look whether n is in avlist already
M_MakeAvailable_NoDuplicateTest(st, rem, n, d) ==
    [av |-> InsertAvailable(rem, st.av, n, d), cyc |-> set_cycle_gate(st.cyc, n, d)]

\* MakeAvailable on the pair st = [av, cyc]
MakeAvailable(st, rem, n, d) ==
    IF InSeq(n, st.av) THEN st
    ELSE LET cyc2 == set_cycle_gate(st.cyc, n, d)
         IN  [av |-> InsertAvailable(rem, st.av, n, d), cyc |-> cyc2]

RECURSIVE TakeFrom(_, _, _, _, _, _)
\* TakeAvailable's loop over the arcs its of the node just scheduled
TakeFrom(st, rem, sched, its, k, d) ==
    IF k > Len(its) THEN st
    ELSE LET dep == IF d = "forward" THEN arcs[its[k]].tgt ELSE arcs[its[k]].src
             schedulable ==
                 IF d = "forward"
                 THEN \A a \in ArcIds : arcs[a].tgt = dep => sched[arcs[a].src]
                 ELSE \A a \in ArcIds : arcs[a].src = dep => sched[arcs[a].tgt]
         IN  TakeFrom(IF schedulable THEN MakeAvailable(st, rem, dep, d) ELSE st,
                      rem, sched, its, k + 1, d)

\* avlist and cycles after TakeAvailable(n), sched being scheduled with n set
TakeAvailable(av, cyc, rem, sched, n, d) ==
    TakeFrom([av |-> SelectSeq(av, LAMBDA m : m # n), cyc |-> cyc], rem, sched,
             IF d = "forward" THEN OutArcIt(n) ELSE InArcIt(n), 1, d)

\* DependenceReady with the comparison against curr_cycle dropped
M_DependenceReady_Always(n) == TRUE

\* have the gates n depends on completed at curr_cycle
DependenceReady(n) ==
    IF dir = "forward" THEN ~ULess(curr_cycle, cycle[n]) ELSE ~ULess(cycle[n], curr_cycle)

\* immediately_schedulable without the question to the resource manager
M_immediately_schedulable_NoRM(n, ans) ==
    IF dir = "forward" THEN ~ULess(curr_cycle, cycle[n]) ELSE ~ULess(cycle[n], curr_cycle)

\* immediately_schedulable, the resource manager answering ans[n]
immediately_schedulable(n, ans) ==
    DependenceReady(n) /\ (IsBypass(n) \/ ans[n])

\* SelectAvailable that returns the head of avlist or nothing
M_SelectAvailable_HeadOrNone(ans) ==
    IF avlist # << >> /\ immediately_schedulable(avlist[1], ans) THEN 1 ELSE 0

\* SelectAvailable that returns the last immediately schedulable node
M_SelectAvailable_Last(ans) ==
    LET ok == {i \in 1 .. Len(avlist) : immediately_schedulable(avlist[i], ans)}
    IN  IF ok = {} THEN 0 ELSE CHOOSE i \in ok : \A j \in ok : j <= i

\* SelectAvailable that takes the head of avlist whatever it is
M_SelectAvailable_Head(ans) == IF avlist = << >> THEN 0 ELSE 1

\* SelectAvailable: position in avlist of the first immediately schedulable
\* node, 0 when there is none
SelectAvailable(ans) ==
    LET ok == {i \in 1 .. Len(avlist) : immediately_schedulable(avlist[i], ans)}
    IN  IF ok = {} THEN 0 ELSE CHOOSE i \in ok : \A j \in ok : i <= j

\* the nodes rm.available is asked about in a scan that ends at position sel
Asked(sel) ==
    {avlist[i] : i \in {j \in 1 .. Len(avlist) :
        /\ sel = 0 \/ j <= sel
        /\ DependenceReady(avlist[j])
        /\ ~IsBypass(avlist[j])}}

\* --------------------------------------------------------- resource manager
\* the cycles [c, c + ceil(duration / cycle_time)) node n occupies from c on
Window(n, c) == c .. (c + Weight(n) - 1)

Qubits(n) == {gates[n].operands[i] : i \in 1 .. Len(gates[n].operands)}

\* a resource manager with one resource per qubit: a gate may start at c
\* unless a reserved gate on one of its qubits occupies a cycle of its window
QubitRMAvailable(c, n) ==
    \A r \in reserved :
        Qubits(r.node) \cap Qubits(n) = {} \/ Window(r.node, r.cycle) \cap Window(n, c) = {}

\* ------------------------------------------------------------------- Init
Idle ==
    /\ dir = "forward"
    /\ avlist = << >>
    /\ scheduled = << >>
    /\ curr_cycle = 0
    /\ remaining = << >>
    /\ rmKind = "none"
    /\ reserved = {}
    /\ refusals = 0
    /\ commits = << >>
    /\ rmlog = << >>
    /\ gates_per_cycle = << >>
    /\ cycle_count = 0
    /\ non_empty_bundle_count = 0
    /\ gate_count = 0
    /\ pred_cycle = 0
    /\ moves = 0

\* a kernel as the front-end hands it over: no gate has a cycle yet.  The
\* kernels are those without qubits and cregs, those over NumQubits qubits and
\* NumCregs cregs, the cnot pairs over one qubit more, and the S6 kernel;
\* scheduler_commute is read by init's cnot and cz branches only, so a circuit
\* without such gates is taken with one value of it
Init ==
    /\ \/ \E k \in {<<0, 0>>, <<NumQubits, NumCregs>>} :
             /\ qubit_count = k[1]
             /\ creg_count = k[2]
             /\ gates \in Circuits(k[1], k[2])
       \/ /\ qubit_count = NumQubits + 1
          /\ creg_count = 0
          /\ gates \in CnotPairs
       \/ /\ qubit_count = 5
          /\ creg_count = 0
          /\ gates = S6Kernel
    /\ commute \in (IF \E i \in 1 .. Len(gates) : gates[i].name \in {"cnot", "cz"}
                     THEN BOOLEAN ELSE {TRUE})
    /\ circ = [i \in 1 .. Len(gates) |-> i]
    /\ cycle = [n \in Nodes |-> MAX_CYCLE]
    /\ arcs = << >>
    /\ pc = "start"
    /\ cycles_valid = FALSE
    /\ Idle

inputVars == << qubit_count, creg_count, commute, gates >>

rcVars == << dir, avlist, scheduled, curr_cycle, remaining, rmKind, reserved,
             refusals, commits, rmlog >>

uniformVars == << gates_per_cycle, cycle_count, non_empty_bundle_count, gate_count,
                  pred_cycle, moves >>

\* ---------------------------------------------------------------- actions
\* Scheduler::init: build the graph, fatal unless it is a DAG
SchedulerInit ==
    /\ pc = "start"
    /\ arcs' = BuildGraph
    /\ pc' = IF IsDag(arcs') THEN "built" ELSE "fatal"
    /\ UNCHANGED << inputVars, cycles_valid, circ, cycle, rcVars, uniformVars >>

\* schedule_kernel with print_dot_graphs == "yes": get_dot(dot) runs an ASAP
\* pass and sorts the circuit before the scheduler proper
GetDot ==
    /\ pc = "built"
    /\ cycle' = set_cycle(cycle, circ, "forward")
    /\ circ' = sort_by_cycle(cycle', circ)
    /\ pc' = "dotted"
    /\ UNCHANGED << inputVars, cycles_valid, arcs, rcVars, uniformVars >>

\* schedule_asap(sched_dot), and the end of schedule_kernel
ScheduleAsap ==
    /\ pc \in {"built", "dotted"}
    /\ cycle' = set_cycle(cycle, circ, "forward")
    /\ circ' = sort_by_cycle(cycle', circ)
    /\ pc' = "asap_done"
    /\ cycles_valid' = TRUE
    /\ UNCHANGED << inputVars, arcs, rcVars, uniformVars >>

\* schedule_alap(sched_dot), and the end of schedule_kernel
ScheduleAlap ==
    /\ pc \in {"built", "dotted"}
    /\ cycle' = set_cycle(cycle, circ, "backward")
    /\ circ' = sort_by_cycle(cycle', circ)
    /\ pc' = "alap_done"
    /\ cycles_valid' = TRUE
    /\ UNCHANGED << inputVars, arcs, rcVars, uniformVars >>

\* schedule(circp, dir, platform, rm, sched_dot) up to its loop: nothing is
\* scheduled, SOURCE (forward) or SINK (backward) is available, remaining is
\* set; the run is given a resource manager of kind k.  rcschedule starts
\* such a run for the kernels with a non-empty circuit only
ScheduleStart(d, k) ==
    /\ pc = "built"
    /\ gates # << >>
    /\ dir' = d
    /\ rmKind' = k
    /\ scheduled' = [n \in Nodes |-> FALSE]
    /\ commits' = [n \in Nodes |-> 0]
    /\ reserved' = {}
    /\ refusals' = 0
    /\ rmlog' = << >>
    /\ curr_cycle' = IF d = "forward" THEN 0 ELSE ALAP_SINK_CYCLE
    /\ cycle' = [cycle EXCEPT ![IF d = "forward" THEN SOURCE ELSE SINK] = curr_cycle']
    /\ avlist' = << IF d = "forward" THEN SOURCE ELSE SINK >>
    /\ remaining' = set_remaining(circ, d)
    /\ pc' = "rc_loop"
    /\ UNCHANGED << inputVars, cycles_valid, circ, arcs, uniformVars >>

\* AdvanceCurrCycle that leaves curr_cycle where it is
M_AdvanceCurrCycle_Stay(d, c) == c

\* AdvanceCurrCycle: the cycle after c in direction d
AdvanceCurrCycle(d, c) == IF d = "forward" THEN c + 1 ELSE c - 1

RECURSIVE AvailableCalls(_, _, _)
\* the rm.available calls of SelectAvailable's scan of avlist from position i
\* up to position sel (to the end when sel = 0), each with its answer
AvailableCalls(i, sel, ans) ==
    IF i > Len(avlist) \/ (sel # 0 /\ i > sel) THEN << >>
    ELSE (IF DependenceReady(avlist[i]) /\ ~IsBypass(avlist[i])
          THEN << [call |-> "available", node |-> avlist[i], cycle |-> curr_cycle,
                   answer |-> ans[avlist[i]]] >>
          ELSE << >>)
         \o AvailableCalls(i + 1, sel, ans)

\* one iteration of schedule()'s loop, rm.available answering ans[n] for
\* node n at curr_cycle: commit the selected node, or advance curr_cycle
ScheduleIteration(ans) ==
    LET sel == SelectAvailable(ans)
        refused == {n \in Asked(sel) : ~ans[n]}
    IN  /\ rmKind = "any" => refusals + Cardinality(refused) <= MaxRefusals
        /\ refusals' = IF rmKind = "any" THEN refusals + Cardinality(refused) ELSE refusals
        /\ IF sel = 0
           THEN /\ curr_cycle' = AdvanceCurrCycle(dir, curr_cycle)
                /\ rmlog' = AvailableCalls(1, 0, ans)
                /\ UNCHANGED << cycle, avlist, scheduled, reserved, commits >>
           ELSE LET n == avlist[sel]
                    sched2 == [scheduled EXCEPT ![n] = TRUE]
                    st == TakeAvailable(avlist, [cycle EXCEPT ![n] = curr_cycle],
                                        remaining, sched2, n, dir)
                IN  /\ cycle' = st.cyc
                    /\ avlist' = st.av
                    /\ scheduled' = sched2
                    /\ commits' = [commits EXCEPT ![n] = @ + 1]
                    /\ reserved' = IF IsBypass(n) THEN reserved
                                   ELSE reserved \cup {[node |-> n, cycle |-> curr_cycle]}
                    /\ rmlog' = AvailableCalls(1, sel, ans)
                                  \o (IF IsBypass(n) THEN << >>
                                      ELSE << [call |-> "reserve", node |-> n,
                                               cycle |-> curr_cycle, answer |-> TRUE] >>)
                    /\ UNCHANGED curr_cycle

\* the nodes of avlist SelectAvailable can ask the resource manager about
Askable == {n \in GateNodes : InSeq(n, avlist) /\ DependenceReady(n) /\ ~IsBypass(n)}

\* the answers the resource manager of the run can give at curr_cycle
Answers ==
    IF rmKind = "qubits"
    THEN {[n \in Askable |-> QubitRMAvailable(curr_cycle, n)]}
    ELSE [Askable -> BOOLEAN]

ScheduleLoop ==
    /\ pc = "rc_loop"
    /\ avlist # << >>
    /\ \E ans \in Answers : ScheduleIteration(ans)
    /\ UNCHANGED << inputVars, cycles_valid, circ, arcs, pc, dir, remaining, rmKind, uniformVars >>

\* schedule() after its loop: sort the circuit, and after backward scheduling
\* readjust the cycles so that SOURCE is at 0; back in rcschedule the kernel's
\* cycles are declared valid
ScheduleFinish ==
    /\ pc = "rc_loop"
    /\ avlist = << >>
    /\ circ' = sort_by_cycle(cycle, circ)
    /\ cycle' = IF dir = "backward" THEN ShiftBySource(cycle, circ') ELSE cycle
    /\ pc' = "rc_done"
    /\ cycles_valid' = TRUE
    /\ UNCHANGED << inputVars, arcs, rcVars, uniformVars >>

\* rcschedule on a kernel with an empty circuit: the kernel is skipped
RcScheduleEmpty ==
    /\ pc = "start"
    /\ gates = << >>
    /\ pc' = "rc_skipped"
    /\ UNCHANGED << inputVars, cycles_valid, circ, cycle, arcs, rcVars, uniformVars >>

\* rcschedule_kernel with a scheduler option that is neither ASAP nor ALAP:
\* fatal before init
RcUnknownScheduler ==
    /\ pc = "start"
    /\ gates # << >>
    /\ pc' = "fatal_option"
    /\ UNCHANGED << inputVars, cycles_valid, circ, cycle, arcs, rcVars, uniformVars >>

RMKinds == {"any", "qubits"}

NextRC ==
    \/ SchedulerInit
    \/ RcScheduleEmpty
    \/ RcUnknownScheduler
    \/ \E d \in {"forward", "backward"} : \E k \in RMKinds : ScheduleStart(d, k)
    \/ ScheduleLoop
    \/ ScheduleFinish

\* the resource-constrained list scheduler
SpecRC == Init /\ [][NextRC]_vars

\* the longest circuit of the runs checked for termination
MaxLiveGates == 1

\* the kernels of Init whose circuit has at most MaxLiveGates gates
InitLive == Init /\ Len(gates) <= MaxLiveGates

\* the resource-constrained list scheduler, its loop going on while avlist is
\* not empty and the run ending when it is
SpecRCFair ==
    InitLive /\ [][NextRC]_vars /\ WF_vars(ScheduleLoop) /\ WF_vars(ScheduleFinish)

\* ---------------------------------------------------- schedule_alap_uniform
BundleSize(c) == Len(gates_per_cycle[c])

RECURSIVE Bundles(_, _, _, _)
\* gates_per_cycle[gp->cycle].push_back(gp) for the gates of the circuit c
Bundles(cyc, c, k, gpc) ==
    IF k > Len(c) THEN gpc
    ELSE Bundles(cyc, c, k + 1, [gpc EXCEPT ![cyc[c[k]]] = Append(@, c[k])])

\* schedule_alap_uniform up to its backward scan: ASAP cycles, remaining, the
\* bundles and their counts over cycles 1 .. cycle_count.  When SINK is at
\* cycle 0, cycle_count = SINK.cycle - 1 wraps to the largest size_t and the
\* counting loop, which creates a map entry per cycle, cannot complete
UniformStart ==
    /\ pc \in {"built", "dotted"}
    /\ cycle' = set_cycle(cycle, circ, "forward")
    /\ cycle_count' = cycle'[SINK] - 1
    /\ remaining' = set_remaining(circ, "forward")
    /\ IF cycle_count' < 0
       THEN /\ pc' = "exhausted"
            /\ UNCHANGED << gates_per_cycle, non_empty_bundle_count, gate_count,
                            curr_cycle >>
       ELSE /\ gates_per_cycle' =
                  Bundles(cycle', circ, 1, [c \in 0 .. cycle'[SINK] |-> << >>])
            /\ non_empty_bundle_count' =
                  Cardinality({c \in 1 .. cycle_count' : gates_per_cycle'[c] # << >>})
            /\ gate_count' =
                  Cardinality({n \in GateNodes : cycle'[n] \in 1 .. cycle_count'})
            /\ curr_cycle' = cycle_count'
            /\ pc' = "uniform_loop"
    /\ pred_cycle' = 0
    /\ moves' = 0
    /\ UNCHANGED << inputVars, cycles_valid, circ, arcs, dir, avlist, scheduled, rmKind,
                    reserved, refusals, commits, rmlog >>

\* head of the backward scan's body for curr_cycle
UniformCycleBegin ==
    /\ pc = "uniform_loop"
    /\ curr_cycle >= 1
    /\ pred_cycle' = curr_cycle - 1
    /\ pc' = IF non_empty_bundle_count = 0 THEN "uniform_sort" ELSE "uniform_fill"
    /\ UNCHANGED << inputVars, cycles_valid, circ, cycle, arcs, rcVars, gates_per_cycle, cycle_count,
                    non_empty_bundle_count, gate_count, moves >>

\* FillMore without the comparison with the average
M_FillMore_NoAverage == pred_cycle >= 1

\* double(gates_per_cycle[curr_cycle].size()) < avg_gates_per_non_empty_cycle
\* && pred_cycle >= 1, the average being gate_count / non_empty_bundle_count
FillMore ==
    /\ BundleSize(curr_cycle) * non_empty_bundle_count < gate_count
    /\ pred_cycle >= 1

\* forward_predgp without the loop over the out-arcs
M_forward_predgp_NoSucc(predgp) ==
    ~(curr_cycle + CeilDiv(gates[predgp].duration, CycleTime) > cycle_count + 1)

\* may predgp be moved to curr_cycle: it completes by SINK and by the start
\* of every gate that depends on it
forward_predgp(predgp) ==
    LET predgp_completion_cycle == curr_cycle + CeilDiv(gates[predgp].duration, CycleTime)
    IN  /\ ~(predgp_completion_cycle > cycle_count + 1)
        /\ \A a \in ArcIds :
              arcs[a].src = predgp => ~(predgp_completion_cycle > cycle[arcs[a].tgt])

\* BestPred without the legality test: the first gate of the bundle
M_BestPred_FirstGate(bundle, k, min_remaining_cycle, best_predgp) ==
    IF bundle = << >> THEN 0 ELSE bundle[1]

RECURSIVE BestPred(_, _, _, _)
\* the scan of a bundle: the first candidate of lowest remaining, 0 if none
BestPred(bundle, k, min_remaining_cycle, best_predgp) ==
    IF k > Len(bundle) THEN best_predgp
    ELSE IF forward_predgp(bundle[k]) /\ remaining[bundle[k]] < min_remaining_cycle
         THEN BestPred(bundle, k + 1, remaining[bundle[k]], bundle[k])
         ELSE BestPred(bundle, k + 1, min_remaining_cycle, best_predgp)

\* one iteration of the loop that fills the bundle of curr_cycle: move the
\* best candidate of the bundle at pred_cycle, or go on to the bundle before
UniformFill ==
    /\ pc = "uniform_fill"
    /\ FillMore
    /\ LET best_predgp == BestPred(gates_per_cycle[pred_cycle], 1, MAX_CYCLE, 0)
       IN  IF best_predgp # 0
           THEN LET removed == SelectSeq(gates_per_cycle[pred_cycle],
                                         LAMBDA g : g # best_predgp)
                    count1 == IF removed = << >> THEN non_empty_bundle_count - 1
                              ELSE non_empty_bundle_count
                    count2 == IF gates_per_cycle[curr_cycle] = << >> THEN count1 + 1
                              ELSE count1
                IN  /\ gates_per_cycle' =
                          [gates_per_cycle EXCEPT ![pred_cycle] = removed,
                                                  ![curr_cycle] = Append(@, best_predgp)]
                    /\ non_empty_bundle_count' = count2
                    /\ cycle' = [cycle EXCEPT ![best_predgp] = curr_cycle]
                    /\ moves' = moves + 1
                    /\ pc' = IF count2 = 0 THEN "uniform_end" ELSE "uniform_fill"
                    /\ UNCHANGED pred_cycle
           ELSE /\ pred_cycle' = pred_cycle - 1
                /\ UNCHANGED << gates_per_cycle, non_empty_bundle_count, cycle, moves, pc >>
    /\ UNCHANGED << inputVars, cycles_valid, circ, arcs, rcVars, cycle_count, gate_count >>

\* the bundle of curr_cycle is ready: take it out of the counts, go to the
\* cycle before
UniformCycleEnd ==
    /\ pc = "uniform_end" \/ (pc = "uniform_fill" /\ ~FillMore)
    /\ gate_count' = gate_count - BundleSize(curr_cycle)
    /\ non_empty_bundle_count' =
          IF BundleSize(curr_cycle) # 0 THEN non_empty_bundle_count - 1
          ELSE non_empty_bundle_count
    /\ curr_cycle' = curr_cycle - 1
    /\ pc' = "uniform_loop"
    /\ UNCHANGED << inputVars, cycles_valid, circ, cycle, arcs, dir, avlist, scheduled,
                    remaining, rmKind, reserved, refusals, commits, rmlog,
                    gates_per_cycle, cycle_count, pred_cycle, moves >>

\* after the backward scan: sort_by_cycle, and the end of schedule_kernel
UniformFinish ==
    /\ pc = "uniform_sort" \/ (pc = "uniform_loop" /\ curr_cycle < 1)
    /\ circ' = sort_by_cycle(cycle, circ)
    /\ pc' = "uniform_done"
    /\ cycles_valid' = TRUE
    /\ UNCHANGED << inputVars, cycle, arcs, rcVars, uniformVars >>

NextUniform ==
    \/ SchedulerInit
    \/ GetDot
    \/ UniformStart
    \/ UniformCycleBegin
    \/ UniformFill
    \/ UniformCycleEnd
    \/ UniformFinish

\* the uniforming scheduler
SpecUniform == Init /\ [][NextUniform]_vars

\* schedule_kernel with scheduler_uniform # yes and a scheduler option that
\* is neither ASAP nor ALAP: fatal after init and get_dot
UnknownScheduler ==
    /\ pc \in {"built", "dotted"}
    /\ pc' = "fatal_option"
    /\ UNCHANGED << inputVars, cycles_valid, circ, cycle, arcs, rcVars, uniformVars >>

NextNonRC == SchedulerInit \/ GetDot \/ ScheduleAsap \/ ScheduleAlap \/ UnknownScheduler

\* the schedulers without resource constraints
SpecNonRC == Init /\ [][NextNonRC]_vars

Next == NextNonRC \/ NextUniform \/ NextRC

\* every entry point
Spec == Init /\ [][Next]_vars

\* ------------------------------------------------------ claims: ASAP / ALAP
\* u.cycle + w <= v.cycle on every arc u->v of weight w
DependencesHonored ==
    \A a \in ArcIds :
        ~ULess(cycle[arcs[a].tgt], cycle[arcs[a].src] + arcs[a].weight)

InArcs(n) == {a \in ArcIds : arcs[a].tgt = n}

OutArcs(n) == {a \in ArcIds : arcs[a].src = n}

\* the largest element of a non-empty finite set of naturals
SetMax(S) == CHOOSE x \in S : \A y \in S : y <= x

SetMin(S) == CHOOSE x \in S : \A y \in S : x <= y

RECURSIVE LongestFromSource(_)
\* length of the longest weighted path from SOURCE to n (0 without in-arcs)
LongestFromSource(n) ==
    IF InArcs(n) = {} THEN 0
    ELSE SetMax({LongestFromSource(arcs[a].src) + arcs[a].weight : a \in InArcs(n)})

\* C1: after the ASAP pass and after the ALAP pass (shift included) every
\* arc u->v of weight w has u.cycle + w <= v.cycle
C1_DependencesAfterSetCycle ==
    pc \in {"dotted", "asap_done", "alap_done"} => DependencesHonored

\* an ALAP schedule of three gates with an arc of weight 2 between two gates
C1_Witness ==
    /\ pc = "alap_done"
    /\ Len(gates) = 3
    /\ \E a \in ArcIds : arcs[a].src \in GateNodes /\ arcs[a].tgt \in GateNodes
                          /\ arcs[a].weight = 2

\* C3: after schedule_asap SOURCE is at cycle 0, every other node is at the
\* maximum over its in-arcs of source.cycle + weight (0 without in-arcs),
\* which is the longest weighted path from SOURCE, so that every node above
\* cycle 0 has an in-arc that forbids a smaller cycle
C3_AsapMinimal ==
    pc = "asap_done" =>
        /\ cycle[SOURCE] = 0
        /\ \A n \in Nodes \ {SOURCE} :
              /\ cycle[n] = LongestFromSource(n)
              /\ cycle[n] =
                    IF InArcs(n) = {} THEN 0
                    ELSE SetMax({cycle[arcs[a].src] + arcs[a].weight : a \in InArcs(n)})
              /\ cycle[n] > 0 =>
                    \E a \in InArcs(n) : cycle[arcs[a].src] + arcs[a].weight = cycle[n]

\* an ASAP schedule, run after get_dot's pass, in which a gate waits for the
\* longer of two predecessors
C3_Witness ==
    /\ pc = "asap_done"
    /\ circ # [i \in 1 .. Len(gates) |-> i]
    /\ \E n \in GateNodes : \E a, b \in InArcs(n) :
          cycle[arcs[a].src] + arcs[a].weight < cycle[arcs[b].src] + arcs[b].weight

\* C4 as claimed: after schedule_alap every gate has an out-arc that forbids
\* a larger cycle, its cycle being the minimum over its out-arcs of
\* target.cycle - weight
C4_AlapMaximal ==
    pc = "alap_done" =>
        \A n \in GateNodes :
            /\ OutArcs(n) # {}
            /\ cycle[n] = SetMin({cycle[arcs[a].tgt] - arcs[a].weight : a \in OutArcs(n)})

\* C5 as claimed: SINK ends the ALAP pass at the cycle the ASAP pass gives it
\* on the same graph, and no gate's ASAP cycle exceeds its ALAP cycle
C5_AlapDepthIsAsapDepth ==
    pc = "alap_done" =>
        LET asap == set_cycle(cycle, circ, "forward")
        IN  /\ cycle[SINK] = asap[SINK]
            /\ \A n \in GateNodes : ~ULess(cycle[n], asap[n])

\* ------------------------------------------------- claims: list scheduler
\* the gates schedule() hands to the resource manager
RealGates == {n \in GateNodes : ~IsBypass(n)}

\* C2: when schedule() has terminated, forward or backward and whatever the
\* resource manager answered, every arc u->v of weight w has
\* u.cycle + w <= v.cycle
C2_DependencesAfterSchedule ==
    pc = "rc_done" => DependencesHonored

\* a backward run in which the resource manager refused a gate, over a graph
\* with an arc between two gates
C2_Witness ==
    /\ pc = "rc_done"
    /\ dir = "backward"
    /\ rmKind = "any"
    /\ refusals > 0
    /\ \E a \in ArcIds : arcs[a].src \in GateNodes /\ arcs[a].tgt \in GateNodes

\* C6: with the resource manager that keeps a qubit for the window of the gate
\* it was reserved for, two committed real gates that share a qubit never
\* have overlapping windows [cycle, cycle + ceil(duration / cycle_time))
C6_ResourceExclusivity ==
    (pc \in {"rc_loop", "rc_done"} /\ rmKind = "qubits") =>
        \A n, m \in RealGates :
            (n # m /\ scheduled[n] /\ scheduled[m] /\ Qubits(n) \cap Qubits(m) # {})
                => Window(n, cycle[n]) \cap Window(m, cycle[m]) = {}

\* a backward run that committed two real gates of non-empty windows on one
\* qubit that no arc orders, so that only the resource manager separates them
C6_Witness ==
    /\ pc = "rc_done"
    /\ rmKind = "qubits"
    /\ dir = "backward"
    /\ \E n, m \in RealGates :
          /\ n # m /\ scheduled[n] /\ scheduled[m]
          /\ Qubits(n) \cap Qubits(m) # {}
          /\ Weight(n) > 0 /\ Weight(m) > 0
          /\ ~(\E a \in ArcIds : {arcs[a].src, arcs[a].tgt} = {n, m})

\* C7 as claimed: when schedule() has terminated every node was marked
\* scheduled and was committed exactly once
C7_EveryNodeScheduledOnce ==
    pc = "rc_done" => \A n \in Nodes : scheduled[n] /\ commits[n] = 1

\* C8 as claimed: when the resource manager never refused, schedule() leaves
\* every node at the cycle set_cycle gives it in the same direction
C8_ScheduleIsSetCycle ==
    (pc = "rc_done" /\ rmKind = "any" /\ refusals = 0) =>
        cycle = set_cycle([n \in Nodes |-> MAX_CYCLE], [i \in 1 .. Len(gates) |-> i], dir)

\* ------------------------------------------------ claims: uniforming pass
InUniform ==
    pc \in {"uniform_loop", "uniform_fill", "uniform_end", "uniform_sort", "uniform_done"}

\* C9: after every move of schedule_alap_uniform, and at its end, every arc
\* u->v of weight w has u.cycle + w <= v.cycle
C9_DependencesDuringUniform ==
    InUniform => DependencesHonored

\* the pass has ended after moving two gates, one of them to the cycle of a
\* gate that depends on it
C9_Witness ==
    /\ pc = "uniform_done"
    /\ moves >= 2
    /\ \E a \in ArcIds :
          /\ arcs[a].src \in GateNodes /\ arcs[a].tgt \in GateNodes
          /\ cycle[arcs[a].src] = cycle[arcs[a].tgt]
          /\ cycle[arcs[a].src] # LongestFromSource(arcs[a].src)

\* C10 as claimed: schedule_alap_uniform leaves SINK at the cycle of the
\* initial ASAP pass, and after the pass every gate completes by SINK's cycle
C10_UniformNonExtension ==
    /\ InUniform => cycle[SINK] = LongestFromSource(SINK)
    /\ pc = "uniform_done" =>
          \A n \in GateNodes : cycle[n] + CeilDiv(gates[n].duration, CycleTime) <= cycle[SINK]

\* C11: schedule_alap_uniform leaves every gate at or after its ASAP cycle and
\* at or before its ALAP cycle, SINK.cycle - remaining[gate], remaining being
\* the forward one
C11_UniformBetweenAsapAndAlap ==
    pc = "uniform_done" =>
        \A n \in GateNodes :
            /\ LongestFromSource(n) <= cycle[n]
            /\ cycle[n] <= cycle[SINK] - remaining[n]

\* the pass has moved a gate that has arcs from its ASAP cycle up to its ALAP
\* cycle, past the cycle of another gate
C11_Witness ==
    /\ pc = "uniform_done"
    /\ moves >= 1
    /\ \E n, m \in GateNodes :
          /\ InArcs(n) # {} /\ InArcs(m) # {}
          /\ LongestFromSource(n) < cycle[n]
          /\ cycle[n] = cycle[SINK] - remaining[n]
          /\ cycle[m] < cycle[n]

\* ------------------------------------------------- claims: every scheduler
\* a scheduler has finished
Finished == pc \in {"asap_done", "alap_done", "rc_done", "uniform_done"}

C13_StrictlyBetweenSentinels ==
    Finished =>
        \A n \in GateNodes : ULess(cycle[SOURCE], cycle[n]) /\ ULess(cycle[n], cycle[SINK])

\* position of node n in the circuit
Pos(n) == CHOOSE i \in 1 .. Len(circ) : circ[i] = n

\* C14 as claimed: when a scheduler has finished, two gates with the same
\* cycle are in the circuit in the order they were handed in (node a is the
\* a-th gate handed in)
C14_StableOrderOnTies ==
    Finished =>
        \A a, b \in GateNodes : (a < b /\ cycle[a] = cycle[b]) => Pos(a) < Pos(b)

\* ---------------------------------------------------- claims: Scheduler::init
\* the circuit is two cnots with a common control and distinct targets
IsCnotPair ==
    /\ Len(gates) = 2
    /\ gates[1].name = "cnot" /\ gates[2].name = "cnot"
    /\ gates[1].operands[1] = gates[2].operands[1]
    /\ gates[1].operands[2] # gates[2].operands[2]

\* is there an arc from node n to node m
ArcBetween(n, m) == \E a \in ArcIds : arcs[a].src = n /\ arcs[a].tgt = m

\* C15 as claimed: two cnots with a common control and distinct targets get
\* equal ASAP cycles with scheduler_commute = yes and distinct ASAP cycles
\* with scheduler_commute = no
C15_CommuteFlagEffect ==
    (pc = "asap_done" /\ IsCnotPair) =>
        IF commute THEN cycle[1] = cycle[2] ELSE cycle[1] # cycle[2]

\* C15 amended: with scheduler_commute = yes both cnots are at ASAP cycle 1
\* and no arc joins them; with scheduler_commute = no the first is at cycle 1
\* and the second ceil(duration / cycle_time) cycles later, at 2 when that
\* weight is 1 and at the same cycle only when the duration is 0
C15_CommuteFlagEffectByWeight ==
    (pc = "asap_done" /\ IsCnotPair) =>
        LET d == gates[1].duration
            w == cycle[2] - cycle[1]
        IN  /\ cycle[1] = 1
            /\ commute => (cycle[2] = 1 /\ ~ArcBetween(1, 2))
            /\ ~commute =>
                  /\ ArcBetween(1, 2)
                  /\ w * CycleTime >= d /\ (w - 1) * CycleTime < d
                  /\ (d \in 1 .. CycleTime) => cycle[2] = 2
                  /\ (cycle[1] = cycle[2]) <=> (d = 0)

\* both settings of scheduler_commute on unit-weight cnots: cycles 1 and 2
\* without commutation
C15_Witness ==
    /\ pc = "asap_done"
    /\ IsCnotPair
    /\ ~commute
    /\ gates[1].duration = 1
    /\ cycle[1] = 1 /\ cycle[2] = 2

\* the circuit is cz a,b; cz b,a with durations of one cycle
IsCzPair ==
    /\ Len(gates) = 2
    /\ gates[1].name = "cz" /\ gates[2].name = "cz"
    /\ gates[1].operands[1] = gates[2].operands[2]
    /\ gates[1].operands[2] = gates[2].operands[1]
    /\ Weight(1) = 1 /\ Weight(2) = 1

\* C16: for cz q0,q1; cz q1,q0 scheduler_commute = yes gives no arc between
\* the two gates and ASAP cycle 1 for both; scheduler_commute = no gives RAR
\* arcs from the first to the second and ASAP cycles 1 and 2
C16_CzSymmetry ==
    IsCzPair =>
        /\ pc \notin {"start", "fatal"} =>
              IF commute
              THEN ~ArcBetween(1, 2) /\ ~ArcBetween(2, 1)
              ELSE /\ \A o \in Qubits(1) : \E a \in ArcIds :
                         /\ arcs[a].src = 1 /\ arcs[a].tgt = 2
                         /\ arcs[a].depType = "RAR" /\ arcs[a].cause = o
                   /\ \A a \in ArcIds :
                         (arcs[a].src = 1 /\ arcs[a].tgt = 2) => arcs[a].depType = "RAR"
        /\ pc = "asap_done" =>
              IF commute THEN cycle[1] = 1 /\ cycle[2] = 1
              ELSE cycle[1] = 1 /\ cycle[2] = 2

\* the ASAP schedule of the cz pair without commutation
C16_Witness ==
    /\ pc = "asap_done"
    /\ IsCzPair
    /\ ~commute
    /\ cycle[2] = 2
    /\ Cardinality({a \in ArcIds : arcs[a].src = 1 /\ arcs[a].tgt = 2}) = 2

\* w is the ceiling of d / ct
IsCeiling(w, d, ct) == w * ct >= d /\ (w - 1) * ct < d

\* C17: the weight add_dep computes is ceil(duration / cycle_time), 3 for
\* duration 3 and cycle_time 1; every arc carries that weight for the duration
\* of its source; and when a scheduler has finished, the target of every arc
\* is at least that many cycles after its source
C17_WeightFromDuration ==
    /\ \A d \in 0 .. MaxDuration : \A ct \in 1 .. CycleTime :
          IsCeiling(CeilDiv(d, ct), d, ct)
    /\ \A a \in ArcIds : IsCeiling(arcs[a].weight, Duration(arcs[a].src), CycleTime)
    /\ Finished =>
          \A a \in ArcIds : \A w \in 0 .. MaxDuration :
              IsCeiling(w, Duration(arcs[a].src), CycleTime)
                  => ~ULess(cycle[arcs[a].tgt], cycle[arcs[a].src] + w)

\* schedule() has finished backward with a gate of the longest duration
\* exactly its weight of 2 cycles before a gate that depends on it
C17_Witness ==
    /\ pc = "rc_done"
    /\ dir = "backward"
    /\ \E a \in ArcIds :
          /\ arcs[a].src \in GateNodes /\ arcs[a].tgt \in GateNodes
          /\ gates[arcs[a].src].duration = MaxDuration
          /\ arcs[a].weight = 2
          /\ cycle[arcs[a].tgt] = cycle[arcs[a].src] + 2

\* C18 as claimed: init never ends in the fatal error of its DAG check, and
\* every arc goes from a node to a node created later
C18_AcyclicByConstruction ==
    pc # "start" =>
        /\ pc # "fatal"
        /\ \A a \in ArcIds : arcs[a].src < arcs[a].tgt

\* the nodes a directed path leads to from node n
Reachable(n) ==
    LET step(S) == S \cup {arcs[a].tgt : a \in {b \in ArcIds : arcs[b].src \in S}}
        reach[k \in 0 .. (Len(gates) + 1)] == IF k = 0 THEN {n} ELSE step(reach[k - 1])
    IN  reach[Len(gates) + 1]

\* C19 as claimed: in the graph init built, every gate is reachable from
\* SOURCE and reaches SINK
C19_GatesBetweenSourceAndSink ==
    pc = "built" =>
        \A n \in GateNodes : n \in Reachable(SOURCE) /\ SINK \in Reachable(n)

\* C20 as claimed: no arc weight is negative, every out-arc of SOURCE has
\* weight 0 and no out-arc of another node has
C20_OnlySourceHasWeightZero ==
    pc = "built" =>
        \A a \in ArcIds :
            /\ arcs[a].weight >= 0
            /\ (arcs[a].src = SOURCE) <=> (arcs[a].weight = 0)

\* C20 amended: no arc weight is negative, every out-arc of SOURCE has weight
\* 1, and the out-arcs of a gate have weight 0 exactly when its duration is 0
C20_WeightZeroIffDurationZero ==
    pc = "built" =>
        \A a \in ArcIds :
            /\ arcs[a].weight >= 0
            /\ arcs[a].src = SOURCE => arcs[a].weight = 1
            /\ arcs[a].src # SOURCE =>
                  ((arcs[a].weight = 0) <=> (gates[arcs[a].src].duration = 0))

\* a graph with an arc of weight 0 from a gate of duration 0, an arc of
\* weight 2 and the arcs of SOURCE
C20_Witness ==
    /\ pc = "built"
    /\ \E a, b, c \in ArcIds :
          /\ arcs[a].src \in GateNodes /\ arcs[a].weight = 0
          /\ arcs[b].src \in GateNodes /\ arcs[b].weight = 2
          /\ arcs[c].src = SOURCE /\ arcs[c].weight = 1

\* the nodes a directed path of arcs labelled with operand o leads to from n
ReachableBy(o, n) ==
    LET step(S) == S \cup {arcs[a].tgt : a \in {b \in ArcIds :
                                arcs[b].cause = o /\ arcs[b].src \in S}}
        reach[k \in 0 .. (Len(gates) + 1)] == IF k = 0 THEN {n} ELSE step(reach[k - 1])
    IN  reach[Len(gates) + 1]

\* the nodes that have an arc labelled with operand o
IncidentTo(o) ==
    {arcs[a].src : a \in {b \in ArcIds : arcs[b].cause = o}}
    \cup {arcs[a].tgt : a \in {b \in ArcIds : arcs[b].cause = o}}

\* C21 as claimed: in the graph init built, any two nodes that have arcs
\* labelled with an operand o are joined by a path of such arcs from the one
\* created earlier to the one created later
C21_OperandOrderTotal ==
    pc = "built" =>
        \A o \in Operands : \A n, m \in IncidentTo(o) :
            n < m => m \in ReachableBy(o, n)

\* ------------------------------------------- claims: the loop of schedule()
\* C22: the loop of schedule(), once entered, ends with an empty avlist and
\* schedule() returns, the resource manager refusing only finitely often
C22_ScheduleTerminates ==
    (pc = "rc_loop") ~> (pc = "rc_done" /\ avlist = << >>)

\* schedule() has returned from a backward run in which the resource manager
\* refused a gate and curr_cycle went on past the cycle the gate was ready at
C22_Witness ==
    /\ pc = "rc_done" /\ avlist = << >>
    /\ dir = "backward"
    /\ refusals = MaxRefusals
    /\ \E n \in RealGates \cap Reachable(SOURCE) :
          \E a \in OutArcs(n) : ULess(cycle[n] + arcs[a].weight, cycle[arcs[a].tgt])

\* the last iteration of the loop asked the resource manager and got only
\* refusals
AllRefused(log) ==
    /\ log # << >>
    /\ log[1].call = "available"
    /\ \A i \in 1 .. Len(log) : log[i].call = "available" => ~log[i].answer

C24_ResourceManagerProtocol ==
    pc \in {"rc_loop", "rc_done"} =>
        /\ \A i \in 1 .. Len(rmlog) :
              /\ rmlog[i].node \in GateNodes
              /\ gates[rmlog[i].node].type \notin BypassTypes
              /\ rmlog[i].call = "reserve" =>
                    /\ i = Len(rmlog) /\ i > 1
                    /\ rmlog[i - 1] = [call |-> "available", node |-> rmlog[i].node,
                                       cycle |-> rmlog[i].cycle, answer |-> TRUE]
                    /\ [node |-> rmlog[i].node, cycle |-> rmlog[i].cycle] \in reserved
                    /\ pc = "rc_loop" => cycle[rmlog[i].node] = rmlog[i].cycle
        /\ \A n \in GateNodes :
              Cardinality({r \in reserved : r.node = n}) =
                  IF gates[n].type \in BypassTypes THEN 0 ELSE commits[n]
        /\ \A r \in reserved : r.node \in GateNodes /\ scheduled[r.node]

\* the last iteration was refused a gate, then granted and reserved another
\* one, an earlier reservation still being held
C24_Witness ==
    /\ pc = "rc_loop"
    /\ Len(rmlog) = 3
    /\ ~rmlog[1].answer
    /\ rmlog[3].call = "reserve"
    /\ Cardinality(reserved) = 2

\* ----------------------------------------- claims: entry points and errors
\* a scheduling run over the kernel has completed without a fatal error
Completed == pc \in {"asap_done", "alap_done", "uniform_done", "rc_done", "rc_skipped"}

\* C25 as claimed: after a run over a kernel has completed without a fatal
\* error, through either entry and for empty and non-empty kernels, the
\* kernel's cycles_valid is true
C25_CyclesValidAfterRun == Completed => cycles_valid

\* no gate's cycle field and no position of the circuit has been changed since
\* the kernel was handed over
Untouched ==
    /\ \A n \in GateNodes : cycle[n] = MAX_CYCLE
    /\ circ = [i \in 1 .. Len(gates) |-> i]

\* C26 as claimed: the fatal error for an unknown scheduler option is raised
\* before any gate's cycle field or the circuit order has been changed
C26_UnknownSchedulerBeforeAnyChange == pc = "fatal_option" => Untouched

\* C27 as claimed: scheduling an empty circuit in a non-RC mode, uniform
\* included, ends without a fatal error for every qubit_count and creg_count
C27_EmptyCircuitLegal ==
    gates = << >> => /\ pc \notin {"fatal", "exhausted"}
                     /\ circ = << >>

\* the graph has an arc that lies on a directed cycle
HasCycle == \E a \in ArcIds : arcs[a].src \in Reachable(arcs[a].tgt)

\* C28: when the graph init built is not a DAG the run is aborted with a
\* fatal error, no cycle field and no circuit position having been changed;
\* and the run is aborted so for no other graph
C28_NotDagAbortsUntouched ==
    /\ (pc # "start" /\ HasCycle) => (pc = "fatal" /\ Untouched)
    /\ pc = "fatal" => (HasCycle /\ Untouched)

\* init has aborted on a circuit whose last gate, after two gates that
\* themselves add arcs, repeats its operand
C28_Witness ==
    /\ pc = "fatal"
    /\ Len(gates) = MaxGates
    /\ gates[MaxGates].name = "swap"
    /\ \E a \in ArcIds : arcs[a].src = 1 /\ arcs[a].tgt = 2
    /\ \E a \in ArcIds : arcs[a].src = MaxGates /\ arcs[a].tgt = MaxGates

\* C29 as claimed: after get_dot, the scheduler that follows, ASAP or ALAP,
\* gives the cycles and the circuit order it gives without get_dot
C29_DotHasNoEffect ==
    pc = "dotted" =>
        \A d \in {"forward", "backward"} :
            LET fresh == [n \in Nodes |-> MAX_CYCLE]
                given == [i \in 1 .. Len(gates) |-> i]
                with == set_cycle(cycle, circ, d)
                without == set_cycle(fresh, given, d)
            IN  /\ with = without
                /\ sort_by_cycle(with, circ) = sort_by_cycle(without, given)

\* ------------------------------------------------ claims: the arcs of init
\* how node n accesses operand o: "W", "Wc", "R", "Rz", "D", or "none"
ModeOf(n, o) ==
    IF n = SINK THEN "W"
    ELSE IF n = SOURCE THEN "none"
    ELSE LET acc == GateAccesses(gates[n])
             at == {i \in 1 .. Len(acc) : acc[i].o = o}
         IN  IF at = {} THEN "none" ELSE acc[CHOOSE i \in at : TRUE].mode

\* the last node before m that wrote operand o, SOURCE when there is none
LastWriterBefore(o, m) ==
    LET ws == {n \in 1 .. (m - 1) : ModeOf(n, o) \in {"W", "Wc"}}
    IN  IF ws = {} THEN SOURCE ELSE CHOOSE n \in ws : \A k \in ws : k <= n

\* the nodes that read o before m with no write or target access of o since
ReadersBefore(o, m) ==
    {n \in 1 .. (m - 1) :
        /\ ModeOf(n, o) \in {"R", "Rz"}
        /\ \A k \in (n + 1) .. (m - 1) : ModeOf(k, o) \notin {"W", "Wc", "D"}}

\* the nodes that accessed o as a cnot target before m with no write or read
\* of o since
DsBefore(o, m) ==
    {n \in 1 .. (m - 1) :
        /\ ModeOf(n, o) = "D"
        /\ \A k \in (n + 1) .. (m - 1) : ModeOf(k, o) \notin {"W", "R", "Rz"}}

\* the arcs node m gets for operand o, RAR and DAD arcs only when withSame
ArcsOf(m, o, withSame) ==
    LET md == ModeOf(m, o)
        from(S, kind) == {<< n, m, kind, o >> : n \in S}
    IN  CASE md \in {"W", "Wc"} ->
               from({LastWriterBefore(o, m)}, "WAW")
               \cup from(ReadersBefore(o, m), "WAR")
               \cup (IF md = "W" THEN from(DsBefore(o, m), "WAD") ELSE {})
          [] md \in {"R", "Rz"} ->
               from({LastWriterBefore(o, m)}, "RAW")
               \cup from(DsBefore(o, m), "RAD")
               \cup (IF withSame THEN from(ReadersBefore(o, m), "RAR") ELSE {})
          [] md = "D" ->
               from({LastWriterBefore(o, m)}, "DAW")
               \cup from(ReadersBefore(o, m), "DAR")
               \cup (IF withSame THEN from(DsBefore(o, m), "DAD") ELSE {})
          [] OTHER -> {}

\* the arcs of the graph as (source, target, kind, operand)
ArcSet == {<< arcs[a].src, arcs[a].tgt, arcs[a].depType, arcs[a].cause >> : a \in ArcIds}

\* C30: the graph init built has no RAR and no DAD arc with
\* scheduler_commute = yes; with no, a cnot/cz read of o has a RAR arc from
\* every node of LastReaders[o] and a cnot target access a DAD arc from every
\* node of LastDs[o]; the arcs of all other kinds are the same for both values
C30_CommuteOnlyDropsRarAndDad ==
    pc = "built" =>
        /\ ArcSet = UNION {ArcsOf(m, o, ~commute) : m \in 1 .. SINK, o \in Operands}
        /\ Len(arcs) = Cardinality(ArcSet)
        /\ {x \in ArcSet : x[3] \notin {"RAR", "DAD"}}
             = UNION {ArcsOf(m, o, FALSE) : m \in 1 .. SINK, o \in Operands}
        /\ commute => \A a \in ArcIds : arcs[a].depType \notin {"RAR", "DAD"}

\* a graph built with scheduler_commute = no that has a RAR arc, a DAD arc
\* and an arc of another kind between gates
C30_Witness ==
    /\ pc = "built"
    /\ ~commute
    /\ \E a, b, c \in ArcIds :
          /\ arcs[a].depType = "RAR"
          /\ arcs[b].depType = "DAD"
          /\ arcs[c].depType \in {"DAR", "RAD"} /\ arcs[c].src # SOURCE

\* ------------------------------------------- claims: soundness of the graph
\* the access class of node n on operand o: write, read, target, or none
ClassOf(n, o) ==
    CASE ModeOf(n, o) \in {"W", "Wc"} -> "W"
      [] ModeOf(n, o) \in {"R", "Rz"} -> "R"
      [] ModeOf(n, o) = "D" -> "D"
      [] OTHER -> "none"

\* an earlier access of class x and a later one of class y may be left
\* unordered: two reads or two target accesses under scheduler_commute = yes
MayCommute(x, y) == commute /\ x = y /\ x \in {"R", "D"}

\* C31 as claimed: two gates that access one operand are joined by a directed
\* path from the earlier to the later one, unless both read it or both access
\* it as cnot target and scheduler_commute is yes
C31_GraphSound ==
    pc = "built" =>
        \A o \in Operands : \A n, m \in GateNodes :
            (/\ n < m
             /\ ClassOf(n, o) # "none" /\ ClassOf(m, o) # "none"
             /\ ~MayCommute(ClassOf(n, o), ClassOf(m, o)))
            => m \in Reachable(n)

\* -------------------------------------------------- claims: set_remaining
RECURSIVE LongestToSink(_)
\* length of the longest weighted path from n to SINK (0 without out-arcs)
LongestToSink(n) ==
    IF OutArcs(n) = {} THEN 0
    ELSE SetMax({LongestToSink(arcs[a].tgt) + arcs[a].weight : a \in OutArcs(n)})

\* the cycles a fresh ASAP (d = "forward") or ALAP (d = "backward") pass
\* gives the gates of the circuit as handed over
FreshCycles(d) ==
    set_cycle([n \in Nodes |-> MAX_CYCLE], [i \in 1 .. Len(gates) |-> i], d)

\* remaining is what set_remaining(dir) left, the circuit being in the
\* order it was handed over, a topological order of the graph
RemainingSet == pc \in {"rc_loop", "rc_done"}

\* C32 as claimed: after set_remaining(forward) remaining[N] is the longest
\* weighted path from N to SINK and equals SINK.cycle - ALAP cycle of N; after
\* set_remaining(backward) it is the longest weighted path from SOURCE to N
\* and equals the ASAP cycle of N; for every node
C32_RemainingIsPathAndCycle ==
    RemainingSet =>
        \A n \in Nodes :
            IF dir = "forward"
            THEN /\ remaining[n] = LongestToSink(n)
                 /\ remaining[n] = FreshCycles("backward")[SINK] - FreshCycles("backward")[n]
            ELSE /\ remaining[n] = LongestFromSource(n)
                 /\ remaining[n] = FreshCycles("forward")[n]

\* ------------------------------------------ claims: criticality_lessthan
\* schedule() is about to enter its loop: remaining is set, nothing scheduled
LoopEntry == pc = "rc_loop" /\ \A n \in Nodes : ~scheduled[n]

\* criticality_lessthan(n, m, dir) for every pair of nodes
CritLess == [p \in Nodes \X Nodes |-> criticality_lessthan(remaining, p[1], p[2], dir)]

\* C33: criticality_lessthan is a strict weak order on the nodes of the
\* graph: irreflexive, asymmetric, transitive, and with transitive
\* incomparability
C33_CriticalityStrictWeakOrder ==
    LoopEntry =>
        LET lt == CritLess
            inc(a, b) == ~lt[<< a, b >>] /\ ~lt[<< b, a >>]
        IN  /\ \A a \in Nodes : ~lt[<< a, a >>]
            /\ \A a, b \in Nodes : ~(lt[<< a, b >>] /\ lt[<< b, a >>])
            /\ \A a, b, c \in Nodes : (lt[<< a, b >>] /\ lt[<< b, c >>]) => lt[<< a, c >>]
            /\ \A a, b, c \in Nodes : (inc(a, b) /\ inc(b, c)) => inc(a, c)

\* three gates of equal remaining: two of them the comparison cannot tell
\* apart, the third less critical than both by the dependents' criticality
C33_Witness ==
    /\ LoopEntry
    /\ \E a, b, c \in GateNodes :
          /\ a # b
          /\ remaining[a] = remaining[b] /\ remaining[b] = remaining[c]
          /\ ~CritLess[<< a, b >>] /\ ~CritLess[<< b, a >>]
          /\ CritLess[<< c, a >>] /\ CritLess[<< c, b >>]

\* the ordered pairs of distinct elements of a sequence: the comparisons a
\* sort of it can make
PairsOf(ln) ==
    {<< ln[i], ln[j] >> : i, j \in 1 .. Len(ln)} \ {<< ln[i], ln[i] >> : i \in 1 .. Len(ln)}

\* the pairs of nodes criticality_lessthan(n1, n2, d) calls itself on: those
\* its two sorts by criticality compare and the pair of most critical
\* dependents; none when it returns before its recursive step
CritCalls(rem, n1, n2, d) ==
    IF n1 = n2 \/ rem[n1] # rem[n2] THEN {}
    ELSE
      LET ln1 == get_depending_nodes(n1, d)
          ln2 == get_depending_nodes(n2, d)
      IN  IF ln1 = << >> \/ ln2 = << >> THEN {}
          ELSE
            LET s1 == SortByRemainingFrom(rem, ln1, 1, << >>)
                s2 == SortByRemainingFrom(rem, ln2, 1, << >>)
                crit_dep_n1 == rem[s1[Len(s1)]]
                crit_dep_n2 == rem[s2[Len(s2)]]
            IN  IF crit_dep_n1 # crit_dep_n2 THEN {}
                ELSE
                  LET r1 == SelectSeq(s1, LAMBDA n : ~(rem[n] < crit_dep_n1))
                      r2 == SelectSeq(s2, LAMBDA n : ~(rem[n] < crit_dep_n2))
                  IN  IF Len(r1) # Len(r2) THEN {}
                      ELSE
                        LET c1 == SortByCriticalityFrom(rem, d, r1, 1, << >>)
                            c2 == SortByCriticalityFrom(rem, d, r2, 1, << >>)
                        IN  PairsOf(r1) \cup PairsOf(r2) \cup {<< c1[Len(c1)], c2[Len(c2)] >>}

RECURSIVE CritDepth(_, _, _, _)
\* the depth of the nest of calls under criticality_lessthan(n1, n2, d)
CritDepth(rem, n1, n2, d) ==
    LET calls == CritCalls(rem, n1, n2, d)
    IN  IF calls = {} THEN 0
        ELSE 1 + SetMax({CritDepth(rem, p[1], p[2], d) : p \in calls})

RECURSIVE Height(_, _)
\* the largest number of arcs on a path from n in direction d
Height(n, d) ==
    LET far == IF d = "forward" THEN {arcs[a].tgt : a \in OutArcs(n)}
               ELSE {arcs[a].src : a \in InArcs(n)}
    IN  IF far = {} THEN 0 ELSE 1 + SetMax({Height(m, d) : m \in far})

\* C34: every call of criticality_lessthan terminates: the nodes of each
\* recursive call are direct dependents, in the scheduling direction, of the
\* nodes of the calling comparison, and the depth of the recursion is at
\* most the depth of the graph below the nodes compared
C34_CriticalityTerminates ==
    LoopEntry =>
        \A n1, n2 \in Nodes :
            LET deps == {arcs[a].tgt : a \in {b \in OutArcs(n1) \cup OutArcs(n2) : dir = "forward"}}
                        \cup {arcs[a].src : a \in {b \in InArcs(n1) \cup InArcs(n2) : dir = "backward"}}
                h == SetMax({Height(n1, dir), Height(n2, dir)})
            IN  /\ \A p \in CritCalls(remaining, n1, n2, dir) : p[1] \in deps /\ p[2] \in deps
                /\ CritDepth(remaining, n1, n2, dir) <= h
                /\ h <= Len(gates) + 1

\* a comparison of two gates whose recursion is two calls deep
C34_Witness ==
    /\ LoopEntry
    /\ \E n1, n2 \in GateNodes : CritDepth(remaining, n1, n2, dir) = 2

\* -------------------------------------------------------- claims: avlist
\* position of node n in the sequence list, 0 when it is not in it
PosIn(list, n) ==
    IF InSeq(n, list) THEN CHOOSE i \in 1 .. Len(list) : list[i] = n ELSE 0

\* list is ordered from most to least critical
CriticalFirst(list) ==
    \A i, j \in 1 .. Len(list) :
        i < j => ~criticality_lessthan(remaining, list[i], list[j], dir)

\* throughout schedule() no element of avlist is less critical than an
\* element after it
AvlistCriticalFirst == pc = "rc_loop" => CriticalFirst(avlist)

\* a node that enters avlist stands after every element that is not less
\* critical than it and before every older element that is, and the elements
\* that stay keep their order
AvlistInsertion ==
    [][(pc = "rc_loop" /\ pc' = "rc_loop") =>
         /\ \A i \in 1 .. Len(avlist') :
               ~InSeq(avlist'[i], avlist) =>
                   \A j \in 1 .. Len(avlist') :
                       InSeq(avlist'[j], avlist) =>
                           (j > i <=> criticality_lessthan(remaining, avlist'[j], avlist'[i], dir))
         /\ \A n, m \in Nodes :
               (InSeq(n, avlist') /\ InSeq(m, avlist') /\ PosIn(avlist, n) > 0
                /\ PosIn(avlist, n) < PosIn(avlist, m))
               => PosIn(avlist', n) < PosIn(avlist', m)
      ]_vars

\* C35: throughout schedule() avlist stays ordered from most to least
\* critical; MakeAvailable puts a new node just before the first element
\* less critical than it, after those of equal criticality, or at the end,
\* and TakeAvailable's removal keeps the order
C35_AvlistKeptOrdered == []AvlistCriticalFirst /\ AvlistInsertion

\* avlist holds three gates, the first more critical than the second, the
\* second and the third of equal criticality
C35_Witness ==
    /\ pc = "rc_loop"
    /\ Len(avlist) = 3
    /\ \A i \in 1 .. 3 : avlist[i] \in GateNodes
    /\ criticality_lessthan(remaining, avlist[2], avlist[1], dir)
    /\ ~criticality_lessthan(remaining, avlist[3], avlist[2], dir)
    /\ ~criticality_lessthan(remaining, avlist[2], avlist[3], dir)

\* the nodes node m waits for in the scheduling direction
PredsInDir(m) ==
    IF dir = "forward" THEN {arcs[a].src : a \in InArcs(m)}
    ELSE {arcs[a].tgt : a \in OutArcs(m)}

\* the node init_available puts in avlist
FirstAvailable == IF dir = "forward" THEN SOURCE ELSE SINK

\* the cycle the nodes m waits for allow it: after the latest end of its
\* predecessors (forward), before the earliest start of its successors less
\* its own length (backward)
CycleFromPreds(m) ==
    IF dir = "forward"
    THEN SetMax({cycle[arcs[a].src] + arcs[a].weight : a \in InArcs(m)})
    ELSE SetMin({cycle[arcs[a].tgt] - arcs[a].weight : a \in OutArcs(m)})

\* C36: throughout schedule() avlist holds no node twice and holds exactly
\* the unscheduled nodes whose predecessors in the scheduling direction are
\* all scheduled (and SOURCE or SINK at the start), each with the cycle its
\* predecessors allow
C36_AvlistIsTheReadySet ==
    pc = "rc_loop" =>
        /\ \A i, j \in 1 .. Len(avlist) : avlist[i] = avlist[j] => i = j
        /\ \A m \in Nodes :
              InSeq(m, avlist) <=>
                  /\ ~scheduled[m]
                  /\ \/ m = FirstAvailable
                     \/ PredsInDir(m) # {} /\ \A p \in PredsInDir(m) : scheduled[p]
        /\ \A i \in 1 .. Len(avlist) :
              avlist[i] # FirstAvailable => cycle[avlist[i]] = CycleFromPreds(avlist[i])

\* avlist holds, once, a gate joined to the gate just committed by two
\* parallel arcs, at the cycle that gate's end allows
C36_Witness ==
    /\ pc = "rc_loop"
    /\ dir = "forward"
    /\ \E m, n \in GateNodes :
          /\ InSeq(m, avlist)
          /\ scheduled[n]
          /\ Cardinality({a \in InArcs(m) : arcs[a].src = n}) = 2
          /\ cycle[m] > cycle[n]

\* ------------------------------------------- claims: selection and advance
\* node n has completed its dependences at curr_cycle
ReadyAt(n) == IF dir = "forward" THEN cycle[n] <= curr_cycle ELSE cycle[n] >= curr_cycle

\* n is a sentinel or of one of the kinds that need no resource
NoResource(n) == n \in {SOURCE, SINK} \/ gates[n].type \in BypassTypes

\* the resource manager answered ans when asked about n in the selection
\* logged in log
Answered(log, n, ans) ==
    \E i \in 1 .. Len(log) :
        log[i].call = "available" /\ log[i].node = n /\ log[i].answer = ans

\* C37: an iteration of the loop commits, at curr_cycle, the first node of
\* avlist that is dependence-ready and either needs no resource or is
\* granted by the resource manager, every ready node before it having been
\* refused, and leaves curr_cycle alone; when there is no such node it
\* moves curr_cycle by one step in the direction; committed cycles never
\* run against the direction
C37_SelectFirstOrAdvance ==
    [][(pc = "rc_loop" /\ avlist # << >> /\ pc' = "rc_loop") =>
         LET chosen == {n \in Nodes : scheduled'[n] /\ ~scheduled[n]}
             Schedulable(n) == ReadyAt(n) /\ (NoResource(n) \/ Answered(rmlog', n, TRUE))
         IN  \/ /\ \E n \in Nodes :
                      /\ chosen = {n}
                      /\ InSeq(n, avlist) /\ Schedulable(n)
                      /\ \A i \in 1 .. (PosIn(avlist, n) - 1) :
                            /\ ~Schedulable(avlist[i])
                            /\ (ReadyAt(avlist[i]) /\ ~NoResource(avlist[i]))
                                   => Answered(rmlog', avlist[i], FALSE)
                      /\ cycle'[n] = curr_cycle
                      /\ \A m \in Nodes : scheduled[m] =>
                            IF dir = "forward" THEN cycle[m] <= cycle'[n]
                            ELSE cycle[m] >= cycle'[n]
                 /\ curr_cycle' = curr_cycle
             \/ /\ chosen = {}
                 /\ \A i \in 1 .. Len(avlist) : ~Schedulable(avlist[i])
                 /\ curr_cycle' = IF dir = "forward" THEN curr_cycle + 1 ELSE curr_cycle - 1
      ]_vars

\* a backward run has committed the second node of avlist at curr_cycle,
\* the first one being ready and refused, and the first one is still waiting
C37_Witness ==
    /\ pc = "rc_loop"
    /\ dir = "backward"
    /\ Len(rmlog) = 3
    /\ rmlog[3].call = "reserve"
    /\ cycle[rmlog[3].node] = curr_cycle
    /\ ~rmlog[1].answer
    /\ avlist # << >> /\ avlist[1] = rmlog[1].node

\* the nodes the step commits
Chosen == {n \in Nodes : scheduled'[n] /\ ~scheduled[n]}

\* n is ready at curr_cycle and needs no resource or was granted in the
\* selection of the step
SchedulableInStep(n) == ReadyAt(n) /\ (NoResource(n) \/ Answered(rmlog', n, TRUE))

\* a step of the loop of schedule()
LoopStep == pc = "rc_loop" /\ avlist # << >> /\ pc' = "rc_loop"

\* C38 as claimed: only a refusal by the resource manager keeps the head of
\* avlist, its most critical node, from being committed at curr_cycle, and
\* when the head is not committed nothing is: curr_cycle advances
C38_NoPriorityInversion ==
    [][LoopStep =>
         (avlist[1] \notin Chosen =>
            /\ ReadyAt(avlist[1]) /\ Answered(rmlog', avlist[1], FALSE)
            /\ Chosen = {}
            /\ curr_cycle' = IF dir = "forward" THEN curr_cycle + 1 ELSE curr_cycle - 1)
      ]_vars

\* C38 amended: the head of avlist is committed at curr_cycle unless it is
\* not dependence-ready or the resource manager refuses it; then the first
\* later node of avlist that is ready and needs no resource or is granted is
\* committed at that cycle, a node not more critical than the head, and
\* curr_cycle advances only when nothing is committed
C38_HeadElseFirstSchedulable ==
    [][LoopStep =>
         /\ SchedulableInStep(avlist[1]) => Chosen = {avlist[1]}
         /\ (/\ ~SchedulableInStep(avlist[1])
             /\ \E i \in 2 .. Len(avlist) : SchedulableInStep(avlist[i]))
            => \E n \in Nodes :
                   /\ Chosen = {n} /\ n # avlist[1] /\ SchedulableInStep(n)
                   /\ ~criticality_lessthan(remaining, avlist[1], n, dir)
                   /\ cycle'[n] = curr_cycle
         /\ Chosen = {} <=> curr_cycle' # curr_cycle
         /\ avlist[1] \notin Chosen =>
                \/ ~ReadyAt(avlist[1])
                \/ Answered(rmlog', avlist[1], FALSE)
      ]_vars

\* a forward run has committed a gate at curr_cycle that is less critical
\* than the head of avlist, which the resource manager refused and which is
\* still the head
C38_Witness ==
    /\ pc = "rc_loop"
    /\ dir = "forward"
    /\ Len(rmlog) >= 3
    /\ rmlog[Len(rmlog)].call = "reserve"
    /\ cycle[rmlog[Len(rmlog)].node] = curr_cycle
    /\ ~rmlog[1].answer
    /\ avlist # << >> /\ avlist[1] = rmlog[1].node
    /\ criticality_lessthan(remaining, rmlog[Len(rmlog)].node, avlist[1], dir)

\* ------------------------------------------------------------------- C39
InUniformScan ==
    pc \in {"uniform_loop", "uniform_fill", "uniform_end", "uniform_sort", "uniform_done"}

\* the number of gates a cycle assignment puts in cycle c
GatesIn(cyc, c) == Cardinality({n \in GateNodes : cyc[n] = c})

\* the largest number of gates in a cycle of 1 .. cycle_count
LargestBucket(cyc) ==
    LET sizes == {GatesIn(cyc, c) : c \in 1 .. cycle_count} \cup {0}
    IN  CHOOSE m \in sizes : \A k \in sizes : k <= m

\* every gate is once in the bundle of its cycle and in no other bundle
OneBucketEach ==
    \A n \in GateNodes :
       /\ cycle[n] \in DOMAIN gates_per_cycle
       /\ \A c \in DOMAIN gates_per_cycle :
             Cardinality({i \in 1 .. Len(gates_per_cycle[c]) :
                             gates_per_cycle[c][i] = n})
                = (IF c = cycle[n] THEN 1 ELSE 0)

\* C39: throughout and after the uniforming pass the largest number of gates
\* in a cycle of 1 .. cycle_count is at most that of the initial ASAP
\* schedule, every gate is in exactly one bundle, the one of its cycle, and
\* for the S6 kernel no cycle holds more than two gates afterwards
C39_UniformNeverWorsens ==
    InUniformScan =>
       /\ LargestBucket(cycle) <= LargestBucket(FreshCycles("forward"))
       /\ OneBucketEach
       /\ (gates = S6Kernel /\ pc = "uniform_done") =>
              \A c \in 1 .. cycle_count : GatesIn(cycle, c) <= 2

\* the S6 kernel after the pass: one gate was moved to each of cycles 2 .. 5
C39_Witness ==
    /\ pc = "uniform_done"
    /\ gates = S6Kernel
    /\ moves = 4
    /\ LargestBucket(FreshCycles("forward")) = 5
    /\ LargestBucket(cycle) = 2

\* ------------------------------------------------------------------- C40
\* a pass and its sort_by_cycle are over
PassDone == pc \in {"dotted", "asap_done", "alap_done", "uniform_done", "rc_done"}

\* the circuit c lists the source of every arc between gates before its target
TopologicalOrder(c) ==
    \A a \in ArcIds :
       (arcs[a].src \in GateNodes /\ arcs[a].tgt \in GateNodes)
          => PosIn(c, arcs[a].src) < PosIn(c, arcs[a].tgt)

\* the circuit in the order it was handed over
HandedOver == [i \in 1 .. Len(gates) |-> i]

\* a later pass over the circuit as it is now computes what it computes over
\* the circuit as handed over
LaterPassesAgree ==
    \A d \in {"forward", "backward"} :
       /\ set_cycle(cycle, circ, d) = FreshCycles(d)
       /\ set_remaining(circ, d) = set_remaining(HandedOver, d)

\* C40: after every pass and its sort_by_cycle the circuit is a permutation
\* of its gates in a topological order of the dependence graph, also when an
\* arc of weight 0 leaves a gate and its dependent in the same cycle, and a
\* later set_cycle or set_remaining gives the values of a fresh pass
C40_SortedCircuitTopological ==
    PassDone =>
       /\ Len(circ) = Len(gates)
       /\ {circ[i] : i \in 1 .. Len(circ)} = GateNodes
       /\ TopologicalOrder(circ)
       /\ LaterPassesAgree

\* a pass has reordered the circuit, and an arc of weight 0 joins two gates
\* that it left in the same cycle
C40_Witness ==
    /\ PassDone
    /\ circ # HandedOver
    /\ \E a \in ArcIds :
          /\ arcs[a].src \in GateNodes
          /\ arcs[a].tgt \in GateNodes
          /\ arcs[a].weight = 0
          /\ cycle[arcs[a].src] = cycle[arcs[a].tgt]

====
